---- MODULE Spec2Model ----
(***************************************************************************)
(* Model of task.py: two linear programs (a production mix and a balanced  *)
(* transportation problem) are built from literal data, handed to          *)
(* scipy.optimize.linprog(method='highs'), and the result is reported on   *)
(* the console and drawn into task1.png / task2.png.                       *)
(*                                                                         *)
(* Numbers.  All problem data are integers and every vertex of both        *)
(* feasible regions is an integer point, so the solver is modelled over    *)
(* the integer points of the feasible region.  A Task 2 result carries a   *)
(* denominator den: the quantities are x[i] / den tons (den = 1 for the    *)
(* solver's own answers), which lets quantities below the 1e-6 tolerance   *)
(* be written down exactly.                                                *)
(***************************************************************************)
EXTENDS Integers, Sequences, FiniteSets, TLC

VARIABLES
    pc,        \* where the program is
    result1,   \* solve_task1's local result (what linprog returned)
    result2,   \* solve_task2's local result
    returned,  \* what solve_task1 / solve_task2 returned to the main program
    console,   \* the printed report, in order
    chart1,    \* what visualize_task1 drew
    chart2,    \* what visualize_task2 drew
    images,    \* the image files written
    calls,     \* how often each function has been called in this run
    prev       \* the results of the previous run of the program, if any

vars == <<pc, result1, result2, returned, console, chart1, chart2, images, calls, prev>>

(***************************************************************************)
(* Arithmetic helpers                                                      *)
(***************************************************************************)
Abs(n) == IF n < 0 THEN -n ELSE n

Max(a, b) == IF a >= b THEN a ELSE b

SetMin(S) == CHOOSE m \in S : \A k \in S : m <= k

RECURSIVE SumTo(_, _, _)
\* a[1]*x[1] + ... + a[k]*x[k]
SumTo(a, x, k) == IF k = 0 THEN 0 ELSE SumTo(a, x, k - 1) + a[k] * x[k]

\* numpy's A @ x for one row: the row's value at the point x
Dot(a, x) == SumTo(a, x, Len(x))

(***************************************************************************)
(* The linear programs, as solve_task1 and solve_task2 build them          *)
(***************************************************************************)
\* bounds entry (0, None): lower bound 0, no upper bound
NonNegative == [lo |-> 0, bounded |-> FALSE, hi |-> 0]

\* The profit vector handed to the minimizing solver without the sign change
c1_NotNegated == <<8000, 12000>>

\* Task 1: c = [-8000, -12000] (profit negated for the minimizing solver)
c1 == <<-8000, -12000>>

\* Task 1: A_ub = [[2, 3], [1, 2]] (CPU time, accumulators)
A_ub1 == <<<<2, 3>>, <<1, 2>>>>

\* The capacities with the accumulator stock mistyped
b_ub1_Wrong == <<240, 140>>

\* Task 1: b_ub = [240, 150]
b_ub1 == <<240, 150>>

\* Task 1: bounds = [(0, None), (0, None)]
bounds1 == <<NonNegative, NonNegative>>

\* The memory row with a tablet taking 8 GB instead of 6
MemoryRow_Wrong == <<4, 8>>

\* The documented memory constraint 4*x1 + 6*x2 <= 480, left out of A_ub
MemoryRow == <<4, 6>>

MemoryBound == 480

\* The objective with the last unit cost mistyped
c2_Mistyped == <<8, 6, 10, 9, 7, 6>>

\* Task 2: c = [8, 6, 10, 9, 7, 5]
c2 == <<8, 6, 10, 9, 7, 5>>

\* Task 2: A_eq, two warehouse rows then three base rows
A_eq2 == << <<1, 1, 1, 0, 0, 0>>,
            <<0, 0, 0, 1, 1, 1>>,
            <<1, 0, 0, 1, 0, 0>>,
            <<0, 1, 0, 0, 1, 0>>,
            <<0, 0, 1, 0, 0, 1>> >>

\* The right-hand sides with Gamma's demand mistyped: supply and demand differ
b_eq2_Unbalanced == <<150, 250, 120, 180, 110>>

\* The right-hand sides with the demands of Beta and Gamma swapped
b_eq2_Swapped == <<150, 250, 120, 100, 180>>

\* Task 2: b_eq = [150, 250, 120, 180, 100]
b_eq2 == <<150, 250, 120, 180, 100>>

\* Task 2: bounds = [(0, None)] * 6
bounds2 == [i \in 1..6 |-> NonNegative]

\* supply = 150 + 250
supply == 150 + 250

\* demand = 120 + 180 + 100
demand == 120 + 180 + 100

\* linprog(c, A_ub=A_ub, b_ub=b_ub, bounds=bounds, method='highs')
Task1LP == [c |-> c1, A_ub |-> A_ub1, b_ub |-> b_ub1,
            A_eq |-> <<>>, b_eq |-> <<>>, bounds |-> bounds1]

\* linprog(c, A_eq=A_eq, b_eq=b_eq, bounds=bounds, method='highs')
Task2LP == [c |-> c2, A_ub |-> <<>>, b_ub |-> <<>>,
            A_eq |-> A_eq2, b_eq |-> b_eq2, bounds |-> bounds2]

\* The three-resource system of the problem statement (CPU, RAM, accumulators)
Task1FullLP == [Task1LP EXCEPT !.A_ub = <<A_ub1[1], MemoryRow, A_ub1[2]>>,
                               !.b_ub = <<b_ub1[1], MemoryBound, b_ub1[2]>>]

(***************************************************************************)
(* scipy.optimize.linprog, as a black box that is right when it reports    *)
(* success.  The integer points of {A_ub x <= b_ub, A_eq x = b_eq,         *)
(* lo <= x} are enumerated coordinate by coordinate; every coefficient of  *)
(* both programs is >= 0, so a row's partial sum bounds what is left for   *)
(* the next coordinate.                                                    *)
(***************************************************************************)
NumVars(lp) == Len(lp.c)

AllRows(lp) == lp.A_ub \o lp.A_eq

AllRhs(lp) == lp.b_ub \o lp.b_eq

\* The last column of row a with a nonzero coefficient (0: none)
LastCol(a) ==
    LET nz == {j \in 1..Len(a) : a[j] # 0}
    IN  IF nz = {} THEN 0 ELSE CHOOSE j \in nz : \A k \in nz : k <= j

\* The largest value coordinate j may take after the prefix p
Cap(lp, j, p) ==
    LET rows == AllRows(lp)
        rhs  == AllRhs(lp)
        use  == {i \in 1..Len(rows) : rows[i][j] > 0}
        caps == {(rhs[i] - Dot(rows[i], p)) \div rows[i][j] : i \in use}
        top  == IF caps = {} THEN 0 ELSE SetMin(caps)
    IN  IF lp.bounds[j].bounded /\ lp.bounds[j].hi < top
        THEN lp.bounds[j].hi ELSE top

\* The values coordinate j may take after the prefix p, among the multiples
\* of step: an equality row that ends at column j fixes it
Cands(lp, step, j, p) ==
    LET ends   == {i \in 1..Len(lp.A_eq) : LastCol(lp.A_eq[i]) = j}
        range  == {v \in lp.bounds[j].lo .. Cap(lp, j, p) : v % step = 0}
        forced == {(lp.b_eq[i] - Dot(lp.A_eq[i], p)) \div lp.A_eq[i][j] : i \in ends}
    IN  IF ends = {} THEN range
        ELSE {v \in forced : /\ v \in range
                             /\ \A i \in ends :
                                  Dot(lp.A_eq[i], p) + lp.A_eq[i][j] * v = lp.b_eq[i]}

RECURSIVE Extend(_, _, _)
Extend(lp, step, p) ==
    IF Len(p) = NumVars(lp) THEN {p}
    ELSE UNION {Extend(lp, step, Append(p, v)) : v \in Cands(lp, step, Len(p) + 1, p)}

\* x satisfies every constraint of lp
Satisfies(lp, x) ==
    /\ \A j \in 1..NumVars(lp) :
          /\ x[j] >= lp.bounds[j].lo
          /\ lp.bounds[j].bounded => x[j] <= lp.bounds[j].hi
    /\ \A i \in 1..Len(lp.A_ub) : Dot(lp.A_ub[i], x) <= lp.b_ub[i]
    /\ \A i \in 1..Len(lp.A_eq) : Dot(lp.A_eq[i], x) = lp.b_eq[i]

\* The feasible points of lp whose coordinates are multiples of step
FeasibleOn(lp, step) == {x \in Extend(lp, step, <<>>) : Satisfies(lp, x)}

\* The feasible integer points of lp
Feasible(lp) == FeasibleOn(lp, 1)

\* The points of F where the objective c is least
Optimal(c, F) ==
    IF F = {} THEN {}
    ELSE LET best == SetMin({Dot(c, x) : x \in F})
         IN  {x \in F : Dot(c, x) = best}

\* The extreme points of S: those that are not the midpoint of two others
Extreme(S) ==
    {x \in S : ~ \E y \in S : /\ y # x
                              /\ [i \in 1..Len(x) |-> 2 * x[i] - y[i]] \in S}

\* linprog's statuses other than 0 (success): iteration limit, infeasible,
\* unbounded, numerical difficulties
FailureStatuses == {1, 2, 3, 4}

Message(status) ==
    CASE status = 0 -> "Optimization terminated successfully."
      [] status = 1 -> "Iteration limit reached."
      [] status = 2 -> "The problem is infeasible."
      [] status = 3 -> "The problem is unbounded."
      [] OTHER      -> "Serious numerical difficulties encountered."

\* The OptimizeResult objects one call of linprog may return, given the set
\* sols of vectors it may report as optimal
Linprog(lp, sols) ==
    {[success |-> TRUE, status |-> 0, x |-> x, den |-> 1,
      fun |-> Dot(lp.c, x), message |-> Message(0)] : x \in sols}
    \cup
    {[success |-> FALSE, status |-> s, message |-> Message(s)] : s \in FailureStatuses}

\* The feasible points and the vectors linprog may report, per task: HiGHS
\* returns a basic solution, that is a vertex of the optimal face
Task1Feasible == Feasible(Task1LP)

Task1Solutions == Extreme(Optimal(Task1LP.c, Task1Feasible))

Task2Feasible == Feasible(Task2LP)

Task2Solutions == Extreme(Optimal(Task2LP.c, Task2Feasible))

\* The three-resource system: its feasible points and optimal vertices
Task1FullFeasible == Feasible(Task1FullLP)

Task1FullSolutions == Extreme(Optimal(Task1FullLP.c, Task1FullFeasible))

(***************************************************************************)
(* Tolerances and classifications                                          *)
(***************************************************************************)
\* The tolerance 1e-6 is 1 / TolDen
TolDen == 1000000

\* abs(used - bound) < 1e-6  (the "fully used" / deficient test of Task 1)
FullyUsed(used, bound) == Abs(used - bound) * TolDen < 1

\* The used-route test without the tolerance: qty > 0
RouteUsed_NoTolerance(q, den) == q > 0

\* qty > 1e-6 for the quantity q / den  (a route listed as used)
RouteUsed(q, den) == q * TolDen > den

\* qty <= 1e-6 for the quantity q / den  (a route listed as unused)
RouteUnused(q, den) == q * TolDen <= den

\* quantity > 1e-6 for the quantity q / den  (an arrow is drawn)
ArrowDrawn(q, den) == q * TolDen > den

\* cost <= 7: the "cheap" colour, else the "expensive" one
ArrowColor(cost) == IF cost <= 7 THEN "#007ACC" ELSE "#E4572E"

(***************************************************************************)
(* Task 1: report and chart                                                *)
(***************************************************************************)
\* The printed solution, resource usage and analysis of solve_task1
Task1Report(result) ==
    LET x1 == result.x[1]
        x2 == result.x[2]
        profit == -result.fun
        cpu_used == 2 * x1 + 3 * x2
        battery_used == x1 + 2 * x2
        deficient ==
            (IF FullyUsed(cpu_used, 240) THEN <<"cpu">> ELSE <<>>)
            \o (IF FullyUsed(battery_used, 150) THEN <<"battery">> ELSE <<>>)
    IN  << [kind |-> "task1_solution", x1 |-> x1, x2 |-> x2, profit |-> profit],
           [kind |-> "task1_usage",
            cpu_used |-> cpu_used, cpu_full |-> FullyUsed(cpu_used, 240),
            cpu_left |-> 240 - cpu_used,
            battery_used |-> battery_used,
            battery_full |-> FullyUsed(battery_used, 150),
            battery_left |-> 150 - battery_used],
           [kind |-> "task1_analysis", x1 |-> x1, x2 |-> x2,
            deficient |-> deficient] >>

\* The vertex list with the CPU line's intercept (0, 80) in place of (0, 75)
vertices_Wrong == << <<0, 0>>, <<0, 80>>, <<30, 60>>, <<120, 0>> >>

\* vertices = [[0, 0], [0, 75], [30, 60], [120, 0]]
vertices == << <<0, 0>>, <<0, 75>>, <<30, 60>>, <<120, 0>> >>

\* The chart of visualize_task1(optimal_point)
Task1Chart(optimal_point) ==
    LET profit == 8000 * optimal_point[1] + 12000 * optimal_point[2]
    IN  [polygon  |-> vertices,
         profit   |-> profit,
         \* np.linspace(profit * 0.2, profit, 5)
         levels   |-> [k \in 1..5 |-> (profit * k) \div 5],
         optimum  |-> optimal_point,
         \* the title's literal "Optimum: x1=30, x2=60"
         title    |-> <<30, 60>>,
         file     |-> "task1.png"]

(***************************************************************************)
(* Task 2: report and chart                                                *)
(***************************************************************************)
RouteNames == <<"Sklad 1 -> Alfa", "Sklad 1 -> Beta", "Sklad 1 -> Gamma",
                "Sklad 2 -> Alfa", "Sklad 2 -> Beta", "Sklad 2 -> Gamma">>

\* The unit costs written into the routes list of solve_task2
RouteCosts == <<8, 6, 10, 9, 7, 5>>

\* routes = [(name, qty, cost), ...]
Routes(x) == [i \in 1..6 |-> [route |-> i, name |-> RouteNames[i],
                              qty |-> x[i], cost |-> RouteCosts[i]]]

\* The unit costs written into the flows list of visualize_task2
FlowCosts == <<8, 6, 10, 9, 7, 5>>

\* flows = [(warehouse, base, quantity, cost), ...]
Flows(x) == [i \in 1..6 |-> [route |-> i,
                             warehouse |-> IF i <= 3 THEN 1 ELSE 2,
                             base |-> ((i - 1) % 3) + 1,
                             quantity |-> x[i], cost |-> FlowCosts[i]]]

\* The printed plan, constraint check and route analysis of solve_task2;
\* quantities and costs are in units of 1 / den
Task2Report(result) ==
    LET x == result.x
        den == result.den
        routes == Routes(x)
    IN  << [kind |-> "task2_plan", x |-> x, den |-> den,
            costs |-> <<8 * x[1], 6 * x[2], 10 * x[3], 9 * x[4], 7 * x[5], 5 * x[6]>>,
            min_cost |-> result.fun],
           [kind |-> "task2_check", den |-> den,
            sums |-> <<x[1] + x[2] + x[3], x[4] + x[5] + x[6],
                       x[1] + x[4], x[2] + x[5], x[3] + x[6]>>,
            expected |-> <<150, 250, 120, 180, 100>>],
           [kind |-> "task2_used", den |-> den,
            lines |-> [i \in 1..Len(SelectSeq(routes, LAMBDA r : RouteUsed(r.qty, den))) |->
                         LET r == SelectSeq(routes, LAMBDA q : RouteUsed(q.qty, den))[i]
                         IN  [route |-> r.route, qty |-> r.qty, cost |-> r.cost,
                              total |-> r.qty * r.cost]]],
           [kind |-> "task2_unused", den |-> den,
            lines |-> [i \in 1..Len(SelectSeq(routes, LAMBDA r : RouteUnused(r.qty, den))) |->
                         LET r == SelectSeq(routes, LAMBDA q : RouteUnused(q.qty, den))[i]
                         IN  [route |-> r.route, qty |-> r.qty, cost |-> r.cost]]] >>

\* The chart of visualize_task2(solution, total_cost)
Task2Chart(solution, den, total_cost) ==
    LET drawn == SelectSeq(Flows(solution), LAMBDA f : ArrowDrawn(f.quantity, den))
    IN  [supplies |-> <<150, 250>>,
         demands  |-> <<120, 180, 100>>,
         arrows   |-> [i \in 1..Len(drawn) |->
                         [route |-> drawn[i].route,
                          \* width = max(2.0, quantity / 25), times 25 * den
                          width25 |-> Max(50 * den, drawn[i].quantity),
                          color |-> ArrowColor(drawn[i].cost),
                          quantity |-> drawn[i].quantity,
                          total |-> drawn[i].cost * drawn[i].quantity]],
         total_cost |-> total_cost,
         den      |-> den,
         file     |-> "task2.png"]

(***************************************************************************)
(* The program                                                             *)
(***************************************************************************)
\* Before a function has run: no result, nothing returned, nothing drawn
NoResult == [success |-> FALSE, status |-> -1, message |-> "unset"]

NoChart == [file |-> "none"]

NoCalls == [solve_task1 |-> 0, linprog1 |-> 0, visualize_task1 |-> 0,
            solve_task2 |-> 0, linprog2 |-> 0, visualize_task2 |-> 0]

NoRun == [ran |-> FALSE]

Init ==
    /\ pc = "main"
    /\ result1 = NoResult
    /\ result2 = NoResult
    /\ returned = [task1 |-> "unset", task2 |-> "unset"]
    /\ console = <<>>
    /\ chart1 = NoChart
    /\ chart2 = NoChart
    /\ images = {}
    /\ calls = NoCalls
    /\ prev = NoRun

\* __main__: the title banner, then the call of solve_task1
MainBanner ==
    /\ pc = "main"
    /\ console' = Append(console, [kind |-> "banner"])
    /\ pc' = "call_task1"
    /\ UNCHANGED <<result1, result2, returned, chart1, chart2, images, calls, prev>>

\* solve_task1 up to and including the solver call
SolveTask1_Linprog ==
    /\ pc = "call_task1"
    /\ \E r \in Linprog(Task1LP, Task1Solutions) : result1' = r
    /\ console' = Append(console, [kind |-> "task1_header"])
    /\ calls' = [calls EXCEPT !.solve_task1 = @ + 1, !.linprog1 = @ + 1]
    /\ pc' = "task1_solved"
    /\ UNCHANGED <<result2, returned, chart1, chart2, images, prev>>

\* solve_task1, "if result.success": the report, up to the call of visualize_task1
SolveTask1_Success ==
    /\ pc = "task1_solved"
    /\ result1.success
    /\ console' = console \o Task1Report(result1)
    /\ pc' = "task1_visualize"
    /\ UNCHANGED <<result1, result2, returned, chart1, chart2, images, calls, prev>>

\* visualize_task1(result.x), then "return result"
VisualizeTask1 ==
    /\ pc = "task1_visualize"
    /\ chart1' = Task1Chart(result1.x)
    /\ images' = images \cup {"task1.png"}
    /\ calls' = [calls EXCEPT !.visualize_task1 = @ + 1]
    /\ returned' = [returned EXCEPT !.task1 = "result"]
    /\ pc' = "between"
    /\ UNCHANGED <<result1, result2, console, chart2, prev>>

\* The failure branch calling the solver a second time instead of returning
SolveTask1_FailureRetries ==
    /\ pc = "task1_solved"
    /\ ~ result1.success
    /\ calls.linprog1 < 2
    /\ \E r \in Linprog(Task1LP, Task1Solutions) : result1' = r
    /\ calls' = [calls EXCEPT !.linprog1 = @ + 1]
    /\ console' = Append(console, [kind |-> "error", task |-> 1,
                                   message |-> result1.message])
    /\ UNCHANGED <<pc, result2, returned, chart1, chart2, images, prev>>

\* The failure branch raising instead of returning None
SolveTask1_FailureRaises ==
    /\ pc = "task1_solved"
    /\ ~ result1.success
    /\ console' = Append(console, [kind |-> "error", task |-> 1,
                                   message |-> result1.message])
    /\ pc' = "raised"
    /\ UNCHANGED <<result1, result2, returned, chart1, chart2, images, calls, prev>>

\* solve_task1, "else": print the message, return None
SolveTask1_Failure ==
    /\ pc = "task1_solved"
    /\ ~ result1.success
    /\ console' = Append(console, [kind |-> "error", task |-> 1,
                                   message |-> result1.message])
    /\ returned' = [returned EXCEPT !.task1 = "None"]
    /\ pc' = "between"
    /\ UNCHANGED <<result1, result2, chart1, chart2, images, calls, prev>>

\* __main__: the separator line between the two tasks
MainSeparator ==
    /\ pc = "between"
    /\ console' = Append(console, [kind |-> "separator"])
    /\ pc' = "call_task2"
    /\ UNCHANGED <<result1, result2, returned, chart1, chart2, images, calls, prev>>

\* solve_task2 up to and including the solver call
SolveTask2_Linprog ==
    /\ pc = "call_task2"
    /\ \E r \in Linprog(Task2LP, Task2Solutions) : result2' = r
    /\ console' = Append(console, [kind |-> "task2_header",
                                   supply |-> supply, demand |-> demand])
    /\ calls' = [calls EXCEPT !.solve_task2 = @ + 1, !.linprog2 = @ + 1]
    /\ pc' = "task2_solved"
    /\ UNCHANGED <<result1, returned, chart1, chart2, images, prev>>

\* solve_task2, "if result.success": the report, up to the call of visualize_task2
SolveTask2_Success ==
    /\ pc = "task2_solved"
    /\ result2.success
    /\ console' = console \o Task2Report(result2)
    /\ pc' = "task2_visualize"
    /\ UNCHANGED <<result1, result2, returned, chart1, chart2, images, calls, prev>>

\* visualize_task2(result.x, result.fun), then "return result"
VisualizeTask2 ==
    /\ pc = "task2_visualize"
    /\ chart2' = Task2Chart(result2.x, result2.den, result2.fun)
    /\ images' = images \cup {"task2.png"}
    /\ calls' = [calls EXCEPT !.visualize_task2 = @ + 1]
    /\ returned' = [returned EXCEPT !.task2 = "result"]
    /\ pc' = "after_task2"
    /\ UNCHANGED <<result1, result2, console, chart1, prev>>

\* solve_task2, "else": print the message, return None
SolveTask2_Failure ==
    /\ pc = "task2_solved"
    /\ ~ result2.success
    /\ console' = Append(console, [kind |-> "error", task |-> 2,
                                   message |-> result2.message])
    /\ returned' = [returned EXCEPT !.task2 = "None"]
    /\ pc' = "after_task2"
    /\ UNCHANGED <<result1, result2, chart1, chart2, images, calls, prev>>

\* __main__: the closing banner; the program ends
MainFooter ==
    /\ pc = "after_task2"
    /\ console' = Append(console, [kind |-> "footer"])
    /\ pc' = "done"
    /\ UNCHANGED <<result1, result2, returned, chart1, chart2, images, calls, prev>>

Next ==
    \/ MainBanner
    \/ SolveTask1_Linprog
    \/ SolveTask1_Success
    \/ VisualizeTask1
    \/ SolveTask1_Failure
    \/ MainSeparator
    \/ SolveTask2_Linprog
    \/ SolveTask2_Success
    \/ VisualizeTask2
    \/ SolveTask2_Failure
    \/ MainFooter

Spec == Init /\ [][Next]_vars

\* The program is sequential and every step returns: no step waits forever
FairSpec == Spec /\ WF_vars(Next)

(***************************************************************************)
(* Running the program again: a new process, the old results kept aside    *)
(***************************************************************************)
Rerun ==
    /\ pc = "done"
    /\ prev' = [ran |-> TRUE, result1 |-> result1, result2 |-> result2]
    /\ pc' = "main"
    /\ result1' = NoResult
    /\ result2' = NoResult
    /\ returned' = [task1 |-> "unset", task2 |-> "unset"]
    /\ console' = <<>>
    /\ chart1' = NoChart
    /\ chart2' = NoChart
    /\ images' = {}
    /\ calls' = NoCalls

NextRerun ==
    \/ Next
    \/ Rerun

SpecRerun == Init /\ [][NextRerun]_vars

(***************************************************************************)
(* The report and chart of Task 2 applied to any returned vector: the      *)
(* quantities are x[i] / FineDen tons, TicksPerTol of them to the          *)
(* tolerance, so that quantities below, at and above 1e-6 all occur        *)
(***************************************************************************)
TicksPerTol == 2

MaxFine == 3

FineDen == TolDen * TicksPerTol

InitClassify ==
    /\ pc = "task2_solved"
    /\ \E x \in [1..6 -> 0..MaxFine] :
          result2 = [success |-> TRUE, status |-> 0, x |-> x, den |-> FineDen,
                     fun |-> Dot(c2, x), message |-> Message(0)]
    /\ result1 = NoResult
    /\ returned = [task1 |-> "unset", task2 |-> "unset"]
    /\ console = <<>>
    /\ chart1 = NoChart
    /\ chart2 = NoChart
    /\ images = {}
    /\ calls = [NoCalls EXCEPT !.solve_task2 = 1, !.linprog2 = 1]
    /\ prev = NoRun

NextClassify ==
    \/ SolveTask2_Success
    \/ VisualizeTask2

SpecClassify == InitClassify /\ [][NextClassify]_vars

(***************************************************************************)
(* Properties                                                              *)
(***************************************************************************)
\* The positions of the console entries of one kind
Idx(kind) == {i \in 1..Len(console) : console[i].kind = kind}

\* No feasible production plan earns more than 960000
C1_NoBetterPlan ==
    \A y \in Task1Feasible : 8000 * y[1] + 12000 * y[2] <= 960000

C2_ShipmentsFeasible ==
    /\ result2.success =>
          LET x == result2.x
          IN  /\ \A i \in 1..6 : x[i] >= 0
              /\ x[1] + x[2] + x[3] = 150
              /\ x[4] + x[5] + x[6] = 250
              /\ x[1] + x[4] = 120
              /\ x[2] + x[5] = 180
              /\ x[3] + x[6] = 100
    /\ \A i \in Idx("task2_check") :
          console[i].den = 1 /\ console[i].sums = <<150, 250, 120, 180, 100>>

\* solve_task2 has accepted a solution and printed its constraint check
C2_Witness ==
    /\ pc = "done"
    /\ result2.success
    /\ Idx("task2_check") # {}

\* No feasible shipment plan costs less than 2690
C3_NoCheaperPlan ==
    \A y \in Task2Feasible :
        8 * y[1] + 6 * y[2] + 10 * y[3] + 9 * y[4] + 7 * y[5] + 5 * y[6] >= 2690

\* C3: the minimum cost solve_task2 reports is the sum over the six routes of
\* unit cost (8, 6, 10, 9, 7, 5) times the returned quantity, no feasible plan
\* costs less, and it is 2690 whichever optimal plan the solver returned.
C3_MinCost2690 ==
    /\ C3_NoCheaperPlan
    /\ \A i \in Idx("task2_plan") :
          LET e == console[i]
          IN  /\ e.x = result2.x
              /\ e.min_cost = 8 * e.x[1] + 6 * e.x[2] + 10 * e.x[3]
                              + 9 * e.x[4] + 7 * e.x[5] + 5 * e.x[6]
              /\ e.min_cost = e.costs[1] + e.costs[2] + e.costs[3]
                              + e.costs[4] + e.costs[5] + e.costs[6]
              /\ e.den = 1
              /\ e.min_cost = 2690
    /\ chart2 # NoChart => chart2.total_cost = 2690

\* solve_task2 has reported a plan and its minimum cost
C3_Witness ==
    /\ pc = "done"
    /\ \E i \in Idx("task2_plan") : console[i].min_cost = 2690 /\ console[i].x[1] = 120

C5_OnlyTheMessage(result, ret, chart, file, nLinprog, nVisualize, t, kinds) ==
    (~ result.success /\ result.status # -1) =>
        /\ \A i \in 1..Len(console) : console[i].kind \notin kinds
        /\ chart = NoChart
        /\ file \notin images
        /\ nVisualize = 0
        /\ nLinprog = 1
        /\ ret \in {"unset", "None"}
        /\ ret = "None" =>
              /\ Cardinality({i \in Idx("error") : console[i].task = t}) = 1
              /\ \A i \in Idx("error") :
                    console[i].task = t => console[i].message = result.message

\* C5: after a solver failure a task only prints the solver's message and
\* returns None: no solution, usage or route lines are printed, its chart is
\* not drawn, its image is not written, and the solver is not called again.
C5_FailureOnlyReported ==
    /\ C5_OnlyTheMessage(result1, returned.task1, chart1, "task1.png",
                         calls.linprog1, calls.visualize_task1, 1,
                         {"task1_solution", "task1_usage", "task1_analysis"})
    /\ C5_OnlyTheMessage(result2, returned.task2, chart2, "task2.png",
                         calls.linprog2, calls.visualize_task2, 2,
                         {"task2_plan", "task2_check", "task2_used", "task2_unused"})

\* Both solver calls failed and the program has ended
C5_Witness ==
    /\ pc = "done"
    /\ ~ result1.success /\ ~ result2.success
    /\ returned = [task1 |-> "None", task2 |-> "None"]
    /\ images = {}

\* C6: every route is listed exactly once, as used if and only if its
\* quantity is above 1e-6 and as unused otherwise, and the chart has an arrow
\* for exactly the routes listed as used.
C6_RoutesClassified ==
    /\ Idx("task2_used") # {} =>
          \A r \in 1..6 :
              (\E i \in Idx("task2_used") : \E k \in 1..Len(console[i].lines) :
                    console[i].lines[k].route = r)
              <=> result2.x[r] * 1000000 > result2.den
    /\ Idx("task2_unused") # {} =>
          /\ \A r \in 1..6 :
                (\E i \in Idx("task2_unused") : \E k \in 1..Len(console[i].lines) :
                      console[i].lines[k].route = r)
                <=> ~ (result2.x[r] * 1000000 > result2.den)
          /\ \A i \in Idx("task2_used"), j \in Idx("task2_unused") :
                Len(console[i].lines) + Len(console[j].lines) = 6
    /\ chart2 # NoChart =>
          \A r \in 1..6 :
              (\E k \in 1..Len(chart2.arrows) : chart2.arrows[k].route = r)
              <=> (\E i \in Idx("task2_used") : \E k \in 1..Len(console[i].lines) :
                      console[i].lines[k].route = r)

\* A report and chart with a positive quantity below the tolerance, one at
\* the tolerance (both unused, no arrow) and one above it (used, with an arrow)
C6_Witness ==
    /\ chart2 # NoChart
    /\ result2.x[1] > 0 /\ result2.x[1] * 1000000 < result2.den
    /\ result2.x[2] * 1000000 = result2.den
    /\ result2.x[3] * 1000000 > result2.den
    /\ \E k \in 1..Len(chart2.arrows) : chart2.arrows[k].route = 3
    /\ \A k \in 1..Len(chart2.arrows) : chart2.arrows[k].route \notin {1, 2}

\* Each task runs at most once, Task 2 only after solve_task1 has returned,
\* and at the end both have run once and returned
C7_Order ==
    /\ calls.solve_task1 <= 1 /\ calls.solve_task2 <= 1
    /\ calls.linprog1 <= 1 /\ calls.linprog2 <= 1
    /\ calls.solve_task2 = 1 => returned.task1 # "unset"
    /\ pc = "done" =>
          /\ calls.solve_task1 = 1 /\ calls.solve_task2 = 1
          /\ returned.task1 # "unset" /\ returned.task2 # "unset"
          /\ \A i \in Idx("task1_header"), j \in Idx("task2_header") : i < j
    /\ pc # "raised"

\* C7: the program runs Task 1 and then Task 2, each exactly once; after a
\* solver failure in Task 1, Task 2 is still run; and whatever the outcomes the
\* program reaches its end.
C7_BothTasksRun ==
    /\ []C7_Order
    /\ <>(pc = "done")
    /\ (returned.task1 = "None") ~> (calls.solve_task2 = 1)

\* Task 1 failed, Task 2 ran all the same and the program has ended
C7_Witness ==
    /\ pc = "done"
    /\ returned.task1 = "None"
    /\ calls.solve_task2 = 1
    /\ returned.task2 = "result"

\* The largest coordinate of the points the plane is sampled at
MaxCoord == 160

C8_Plane == (0..MaxCoord) \X (0..MaxCoord)

\* At every point with x1, x2 >= 0 the memory constraint holds exactly when
\* the CPU-time constraint does
C8_SameHalfPlane ==
    \A p \in C8_Plane :
        (Dot(MemoryRow, p) <= MemoryBound) <=> (2 * p[1] + 3 * p[2] <= 240)

\* C8: the memory constraint 4*x1 + 6*x2 <= 480 holds exactly where the
\* CPU-time constraint 2*x1 + 3*x2 <= 240 holds, so the two-constraint system
\* that is solved has the feasible set and the optimal vertices of the full
\* three-constraint system, and every returned plan satisfies the memory
\* constraint and is optimal for the full system.
C8_MemoryRedundant ==
    /\ C8_SameHalfPlane
    /\ Task1FullFeasible = Task1Feasible
    /\ Task1FullSolutions = Task1Solutions
    /\ result1.success =>
          /\ 4 * result1.x[1] + 6 * result1.x[2] <= 480
          /\ result1.x \in Task1FullSolutions

\* solve_task1 has returned a plan that uses the memory in full
C8_Witness ==
    /\ pc = "done"
    /\ result1.success
    /\ 4 * result1.x[1] + 6 * result1.x[2] = 480

\* The boundary lines of Task 1: x1 = 0, x2 = 0 and each row of A_ub at equality
C9_OnBoundary(k, p) ==
    IF k <= 2 THEN p[k] = bounds1[k].lo
    ELSE Dot(A_ub1[k - 2], p) = b_ub1[k - 2]

\* The points where two boundary lines meet
C9_Intersections ==
    {p \in C8_Plane : \E k \in 1..4 : \E l \in (k + 1)..4 :
                          C9_OnBoundary(k, p) /\ C9_OnBoundary(l, p)}

C9_VertexSet == {vertices[i] : i \in 1..Len(vertices)}

\* The four hardcoded vertices are the feasible ones among the six pairwise
\* intersections of boundary lines; the other two are (0, 80) and (150, 0)
C9_VerticesAreTheCorners ==
    /\ Len(vertices) = 4
    /\ Cardinality(C9_Intersections) = 6
    /\ C9_VertexSet = {p \in C9_Intersections : Satisfies(Task1LP, p)}
    /\ C9_VertexSet = {<<0, 0>>, <<0, 75>>, <<30, 60>>, <<120, 0>>}
    /\ C9_Intersections \ C9_VertexSet = {<<0, 80>>, <<150, 0>>}
    /\ C9_VertexSet = Extreme(Task1Feasible)

\* C9: the four vertices of the shaded polygon are exactly the extreme points
\* of the Task 1 feasible region, each the feasible intersection of two
\* boundary lines, no other intersection being feasible, and the optimal
\* point drawn is one of the four.
C9_PolygonIsFeasibleRegion ==
    /\ C9_VerticesAreTheCorners
    /\ chart1 # NoChart =>
          /\ chart1.polygon = vertices
          /\ chart1.optimum = result1.x
          /\ chart1.optimum \in C9_VertexSet

\* visualize_task1 has drawn the polygon and the optimal point (120, 0)
C9_Witness ==
    /\ chart1 # NoChart
    /\ chart1.optimum = <<120, 0>>
    /\ "task1.png" \in images

RECURSIVE C10_Gcd(_, _)
C10_Gcd(a, b) == IF b = 0 THEN a ELSE C10_Gcd(b, a % b)

RECURSIVE C10_GcdOf(_, _)
C10_GcdOf(b, k) == IF k = 0 THEN 0 ELSE C10_Gcd(b[k], C10_GcdOf(b, k - 1))

\* The equality system without the rows in D
C10_Drop(D) ==
    LET keep == SelectSeq([i \in 1..Len(A_eq2) |-> i], LAMBDA i : i \notin D)
    IN  [Task2LP EXCEPT !.A_eq = [i \in 1..Len(keep) |-> A_eq2[keep[i]]],
                        !.b_eq = [i \in 1..Len(keep) |-> b_eq2[keep[i]]]]

\* The shipment vectors (multiples of the right-hand sides' common divisor)
\* that satisfy every equality row but those in D
C10_Vectors(D) == FeasibleOn(C10_Drop(D), C10_GcdOf(b_eq2, Len(b_eq2)))

\* The two supply rows and the three demand rows add up to the same row and
\* the same right-hand side, 400
C10_RowsAddUp ==
    /\ supply = 400 /\ demand = 400
    /\ b_eq2[1] + b_eq2[2] = 400
    /\ b_eq2[3] + b_eq2[4] + b_eq2[5] = 400
    /\ \A j \in 1..6 :
          A_eq2[1][j] + A_eq2[2][j] = A_eq2[3][j] + A_eq2[4][j] + A_eq2[5][j]

\* A vector that satisfies four of the rows satisfies the fifth
C10_FourImplyFifth ==
    \A k \in 1..5 : \A x \in C10_Vectors({k}) : Dot(A_eq2[k], x) = b_eq2[k]

\* No three rows imply the other two: only one row is dependent
C10_OnlyOneDependent ==
    \A k \in 1..5 : \A l \in (k + 1)..5 :
        \E x \in C10_Vectors({k, l}) : ~ Satisfies(Task2LP, x)

\* C10: the equality system of Task 2 is balanced (150 + 250 = 120 + 180 +
\* 100 = 400), its two supply rows add up to the same coefficients as its
\* three demand rows, any vector that satisfies four of the five rows
\* satisfies the fifth, and no second row is dependent.
C10_OneDependentRow ==
    /\ C10_RowsAddUp
    /\ C10_FourImplyFifth
    /\ C10_OnlyOneDependent
    /\ \A i \in Idx("task2_header") :
          console[i].supply = console[i].demand /\ console[i].supply = 400
    /\ result2.success => Satisfies(Task2LP, result2.x)

\* solve_task2 has printed the balance and accepted a vector of the system
C10_Witness ==
    /\ Idx("task2_header") # {}
    /\ result2.success
    /\ \A k \in 1..5 : result2.x \in C10_Vectors({k})

====
